---- MODULE Spec2Model ----
(***************************************************************************)
(* A model of cloudflare-assets-kv / path-kv:                              *)
(*   - withPathKv   (path-kv middleware: path + Accept -> candidate keys)   *)
(*   - withAssetsKV (single-key asset middleware)                           *)
(*   - uploadkv     (directory walk + `wrangler kv key put`)                *)
(*                                                                         *)
(* Strings are sequences of tokens.  A token is either one special         *)
(* character ("/", ".", "\\"), one percent-escape ("%2E", "%zz") or a run  *)
(* of ordinary characters ("docs", "html").  No token is the concatenation *)
(* of other tokens, so two token sequences are equal exactly when the      *)
(* strings they stand for are equal, and string concatenation is \o.       *)
(***************************************************************************)
EXTENDS Integers, Sequences, FiniteSets, TLC

VARIABLES
    options,     \* the options the wrapper was built with (one deployment)
    pc,          \* position of the wrapped fetch handler
    request,     \* the Request being handled
    env,         \* the env passed in (which bindings it has)
    path,        \* withPathKv: local `path`
    extensions,  \* withPathKv: local `extensions`
    idx,         \* withPathKv: position of the `for (const ext of extensions)` loop
    key,         \* withAssetsKV: local `key`
    probes,      \* every KV call the handler made so far, with its outcome
    handlerLog,  \* every call of the wrapped handler, with its outcome
    result,      \* what the wrapper returned (resolved or rejected)
    upPc,        \* uploadkv: position of main()
    tree,        \* uploadkv: the relative paths of the files below basePath
    files,       \* uploadkv: local `files`
    upIdx,       \* uploadkv: loop variable i (1-based)
    flags,       \* uploadkv: dryRun, useLocal and the ignore patterns
    store,       \* the KV entries uploadkv wrote: key -> entry
    log,         \* uploadkv: the "Uploading ..." console lines
    commands,    \* uploadkv: the wrangler put commands executed
    defaultExtensions,  \* the contents of the module-level array
                        \* DEFAULT_EXTENSIONS of the worker isolate
    inflight     \* the invocations of the wrapped fetch handler that run
                 \* concurrently in one isolate: slot -> that invocation's locals

vars == <<options, pc, request, env, path, extensions, idx, key, probes,
          handlerLog, result, upPc, tree, files, upIdx, flags, store, log,
          commands, defaultExtensions, inflight>>

reqVars == <<pc, request, env, path, extensions, idx, key, probes,
             handlerLog, result>>

upVars == <<upPc, tree, files, upIdx, flags, store, log, commands>>

isolateVars == <<defaultExtensions, inflight>>

-----------------------------------------------------------------------------
(* JavaScript values *)

NULL == "<null>"
UNDEFINED == "<undefined>"

\* JS truthiness of a string-or-null-or-undefined value
Truthy(v) == v \notin {NULL, UNDEFINED, ""}

\* s.endsWith("/")
EndsWithSlash(s) == Len(s) > 0 /\ s[Len(s)] = "/"

\* s.startsWith(p)
StartsWith(s, p) == Len(p) <= Len(s) /\ SubSeq(s, 1, Len(p)) = p

\* s.split(".").pop(): the text after the last "." (all of s when it has none)
LastDot(s) == IF \E i \in 1..Len(s) : s[i] = "."
              THEN CHOOSE i \in 1..Len(s) :
                       s[i] = "." /\ \A j \in (i+1)..Len(s) : s[j] # "."
              ELSE 0

SplitPop(s) == SubSeq(s, LastDot(s) + 1, Len(s))

\* Percent-escapes that decodeURIComponent rejects with URIError
MalformedEscapes == {"%zz"}

DecodeThrows(s) == \E i \in 1..Len(s) : s[i] \in MalformedEscapes

DecodeToken(t) == IF t = "%2E" THEN "." ELSE IF t = "%2F" THEN "/" ELSE t

decodeURIComponent(s) == [i \in 1..Len(s) |-> DecodeToken(s[i])]

\* String.prototype.toLowerCase on the tokens used here
LowerToken(t) == IF t = "HTML" THEN "html" ELSE t

toLowerCase(s) == [i \in 1..Len(s) |-> LowerToken(s[i])]

\* Property lookup obj[name] on an object literal also finds the members
\* inherited from Object.prototype; these are functions, hence truthy.
ObjectPrototype ==
    [constructor |-> "function Object() { [native code] }",
     toString    |-> "function toString() { [native code] }"]

\* obj[name] for an object literal with own properties `own`, name a string
\* given as a token sequence
Lookup(own, name) ==
    IF Len(name) = 1 /\ name[1] \in DOMAIN own THEN own[name[1]]
    ELSE IF Len(name) = 1 /\ name[1] \in DOMAIN ObjectPrototype
         THEN ObjectPrototype[name[1]]
    ELSE UNDEFINED

-----------------------------------------------------------------------------
(* path-kv: content negotiation *)

\* the default list in the opposite order
DEFAULT_EXTENSIONS_htmlFirst == <<"html", "json", "md", "txt">>

DEFAULT_EXTENSIONS == <<"txt", "md", "json", "html">>

NoQ == 0 - 1

\* An Accept header is [present, items]; an item is one comma-separated part,
\* [type, q]: its media range (already trimmed) and its q parameter in tenths
\* (NoQ when it has no parameter).  present = FALSE is headers.get() = null.
ExactlyStarStar(h) == h.items = <<[type |-> "*/*", q |-> NoQ]>>

\* the switch of parseAcceptHeader
TypeExtension(type) ==
    CASE type = "text/html" -> <<"html">>
      [] type = "application/json" -> <<"json">>
      [] type = "text/markdown" -> <<"md">>
      [] type = "text/x-markdown" -> <<"md">>
      [] type = "text/plain" -> <<"txt">>
      [] OTHER -> <<>>

\* .map(type => type.trim().split(";")[0]).filter(type => type !== "*/*")
AcceptTypes(items) ==
    SelectSeq([i \in 1..Len(items) |-> items[i].type], LAMBDA t : t # "*/*")

RECURSIVE PushListed(_)
PushListed(types) ==
    IF types = <<>> THEN <<>>
    ELSE TypeExtension(Head(types)) \o PushListed(Tail(types))

Includes(seq, x) == \E i \in 1..Len(seq) : seq[i] = x

RECURSIVE PushRemaining(_, _)
PushRemaining(exts, defaults) ==
    IF defaults = <<>> THEN exts
    ELSE PushRemaining(IF Includes(exts, Head(defaults)) THEN exts
                       ELSE Append(exts, Head(defaults)),
                       Tail(defaults))

\* !acceptHeader || acceptHeader === "*/*": parseAcceptHeader returns the
\* module array itself
ReturnsDefaults(h) == ~h.present \/ h.items = <<>> \/ ExactlyStarStar(h)

\* DEFAULT_EXTENSIONS is read where the function runs: the array's contents
\* at that moment
parseAcceptHeader(h) ==
    IF ReturnsDefaults(h)
    THEN defaultExtensions
    ELSE PushRemaining(PushListed(AcceptTypes(h.items)), defaultExtensions)

contentTypes ==
    [html |-> "text/html", json |-> "application/json", md |-> "text/markdown",
     txt |-> "text/plain", css |-> "text/css", js |-> "application/javascript",
     png |-> "image/png", jpg |-> "image/jpeg", jpeg |-> "image/jpeg",
     gif |-> "image/gif", svg |-> "image/svg+xml", ico |-> "image/x-icon",
     pdf |-> "application/pdf"]

getContentType(extension) ==
    LET t == Lookup(contentTypes, extension)
    IN  IF Truthy(t) THEN t ELSE "application/octet-stream"

\* a test that knows only the negotiated extensions: /\.(html|md|json|txt)$/
hasExtension_knownOnly(p) ==
    /\ Len(p) >= 2
    /\ p[Len(p) - 1] = "."
    /\ p[Len(p)] \in {"html", "md", "json", "txt"}

\* /\.[^/]+$/.test(path)
hasExtension(p) ==
    \E i \in 1..(Len(p) - 1) :
        p[i] = "." /\ \A j \in (i+1)..Len(p) : p[j] # "/"


-----------------------------------------------------------------------------
(* Responses, KV results, handler outcomes *)

NoResult ==
    [kind |-> "none", body |-> NULL, status |-> 0, contentType |-> UNDEFINED,
     cacheControl |-> UNDEFINED, etag |-> UNDEFINED, error |-> NULL]

\* new Response(body, { headers })
Response(body, status, contentType, cacheControl, etag) ==
    [kind |-> "response", body |-> body, status |-> status,
     contentType |-> contentType, cacheControl |-> cacheControl,
     etag |-> etag, error |-> NULL]

\* the wrapper's promise rejects with `error`
Rejected(error) ==
    [kind |-> "rejected", body |-> NULL, status |-> 0,
     contentType |-> UNDEFINED, cacheControl |-> UNDEFINED,
     etag |-> UNDEFINED, error |-> error]

\* What kv.getWithMetadata(key, {type: "text"}) can do: throw, or resolve to
\* {value, metadata}.  The namespace is an external, eventually consistent
\* store that other writers change, so the outcome of a call on a key that
\* uploadkv did not write is an input of the step that makes the call.
KvResult(threw, value, metaNull, contentType) ==
    [threw |-> threw, value |-> value, metaNull |-> metaNull,
     contentType |-> contentType]

KvThrows == KvResult(TRUE, NULL, TRUE, UNDEFINED)

KvNull == KvResult(FALSE, NULL, TRUE, UNDEFINED)

ExternalResults ==
    { KvThrows,
      KvNull,
      KvResult(FALSE, "", TRUE, UNDEFINED),
      KvResult(FALSE, "asset", TRUE, UNDEFINED),
      KvResult(FALSE, "asset", FALSE, UNDEFINED),
      KvResult(FALSE, "asset", FALSE, ""),
      KvResult(FALSE, "asset", FALSE, "text/custom") }

\* kv.get(key, {type: "arrayBuffer"}) has no metadata
ExternalGetResults == { r \in ExternalResults : r.metaNull }

\* The entry uploadkv wrote under k, as a lookup result
StoredResult(k) == KvResult(FALSE, "asset", FALSE, store[k].contentType)

KvOutcomes(k) ==
    IF k \in DOMAIN store THEN {StoredResult(k), KvThrows} ELSE ExternalResults

KvGetOutcomes(k) ==
    IF k \in DOMAIN store THEN {StoredResult(k), KvThrows}
    ELSE ExternalGetResults

\* result.metadata?.contentType
MetadataContentType(r) == IF r.metaNull THEN UNDEFINED ELSE r.contentType

\* The wrapped handler returns a Response, returns a promise that rejects, or
\* throws before returning.
HandlerResponse == Response("Not Found", 404, UNDEFINED, UNDEFINED, UNDEFINED)

HandlerOutcomes ==
    { [how |-> "resolves", response |-> HandlerResponse],
      [how |-> "rejects", response |-> Rejected("HandlerError")],
      [how |-> "throws", response |-> Rejected("HandlerError")] }

Ctx == "ctx"

HandlerCall(req, e, c, outcome) ==
    [request |-> req, env |-> e, ctx |-> c, outcome |-> outcome]

\* A call of the KV namespace as the history variable `probes` records it
Probe(op, k, r) == [op |-> op, key |-> k, res |-> r]

-----------------------------------------------------------------------------
(* path-kv: tryGetFromKV and withPathKv *)

Miss == [outcome |-> "null", content |-> NULL, contentType |-> UNDEFINED]

\* tryGetFromKV without its try/catch: the lookup's exception propagates
tryGetFromKV_noCatch(p, r) ==
    IF r.threw
    THEN [outcome |-> "throw", content |-> NULL, contentType |-> UNDEFINED]
    ELSE IF Truthy(r.value)
    THEN [outcome |-> "hit", content |-> r.value,
          contentType |->
              IF Truthy(MetadataContentType(r)) THEN MetadataContentType(r)
              ELSE getContentType(IF SplitPop(p) # <<>> THEN SplitPop(p)
                                  ELSE <<"txt">>)]
    ELSE Miss

\* tryGetFromKV(kv, path, prefix) given what kv.getWithMetadata(prefix + path)
\* did (r): the value it returns
tryGetFromKV(p, r) ==
    IF r.threw THEN Miss
    ELSE IF Truthy(r.value)
    THEN [outcome |-> "hit", content |-> r.value,
          contentType |->
              IF Truthy(MetadataContentType(r)) THEN MetadataContentType(r)
              ELSE getContentType(IF SplitPop(p) # <<>> THEN SplitPop(p)
                                  ELSE <<"txt">>)]
    ELSE Miss

\* const fullPath = prefix + path
FullPath(p) == options.prefix \o p

\* `${path}.${ext}`
WithExt(p, ext) == p \o <<".", ext>>

\* path.length > 1 && path.endsWith("/") ? path.slice(0, -1) : path
\* (a pathname starts with the token "/", so it is longer than one character
\* exactly when it has more than one token)
StripTrailingSlash(p) ==
    IF Len(p) > 1 /\ EndsWithSlash(p) THEN SubSeq(p, 1, Len(p) - 1) ELSE p

PkCacheControl == "public, max-age=3600"

\* new Response(result.content, { headers: {...} })
PathKvResponse(t) ==
    Response(t.content, 200, t.contentType, PkCacheControl, UNDEFINED)

\* withPathKv up to its first await: where it goes and with which locals
PathKvEntry(req, e) ==
    LET none == [pc |-> "pk_handler", path |-> <<>>, extensions |-> <<>>,
                 idx |-> 0, result |-> NoResult]
    IN  IF req.method # "GET" THEN none
        ELSE IF ~e.kv THEN none
        ELSE IF DecodeThrows(req.pathname)
        THEN [none EXCEPT !.pc = "done", !.result = Rejected("URIError")]
        ELSE LET p == StripTrailingSlash(decodeURIComponent(req.pathname))
             IN  IF hasExtension(p)
                 THEN [none EXCEPT !.pc = "pk_exact", !.path = p]
                 ELSE IF EndsWithSlash(req.pathname)
                 THEN [none EXCEPT !.pc = "pk_index", !.path = p,
                           !.extensions = parseAcceptHeader(req.accept),
                           !.idx = 1]
                 ELSE [none EXCEPT !.pc = "pk_direct", !.path = p,
                           !.extensions = parseAcceptHeader(req.accept)]

PathKvFetch(req, e) ==
    /\ options.wrapper = "pathkv"
    /\ pc = "idle"
    /\ LET n == PathKvEntry(req, e)
       IN  /\ pc' = n.pc
           /\ path' = n.path
           /\ extensions' = n.extensions
           /\ idx' = n.idx
           /\ result' = n.result
    /\ request' = req
    /\ env' = e
    /\ key' = <<>>
    /\ probes' = <<>>
    /\ handlerLog' = <<>>
    /\ UNCHANGED <<options, isolateVars, upVars>>

\* One `const result = await tryGetFromKV(kv, p, prefix); if (result) return ...`
\* with the lookup doing r; on a miss the code goes on at missPc / missIdx.
PathKvTry(p, r, missPc, missIdx) ==
    LET t == tryGetFromKV(p, r)
    IN  /\ probes' = Append(probes, Probe("getWithMetadata", FullPath(p), r))
        /\ IF t.outcome = "hit"
           THEN /\ result' = PathKvResponse(t)
                /\ pc' = "done"
                /\ idx' = idx
           ELSE IF t.outcome = "throw"
           THEN /\ result' = Rejected("KvError")
                /\ pc' = "done"
                /\ idx' = idx
           ELSE /\ result' = result
                /\ pc' = missPc
                /\ idx' = missIdx
        /\ UNCHANGED <<options, isolateVars, request, env, path, extensions, key,
                       handlerLog, upVars>>

\* the for-of loop: the position after a miss at idx
LoopPc(here) == IF idx < Len(extensions) THEN here ELSE "pk_handler"

LoopIdx == IF idx < Len(extensions) THEN idx + 1 ELSE idx

PathKvExact ==
    /\ pc = "pk_exact"
    /\ \E r \in KvOutcomes(FullPath(path)) :
           PathKvTry(path, r, "pk_handler", idx)

PathKvIndex ==
    /\ pc = "pk_index"
    /\ LET p == WithExt(path \o <<"index">>, extensions[idx])
       IN  \E r \in KvOutcomes(FullPath(p)) :
               PathKvTry(p, r, LoopPc("pk_index"), LoopIdx)

\* the direct lookup without `if (result) return ...`
PathKvDirect_noReturn ==
    /\ pc = "pk_direct"
    /\ \E r \in KvOutcomes(FullPath(path)) :
           /\ probes' = Append(probes,
                               Probe("getWithMetadata", FullPath(path), r))
           /\ pc' = "pk_ext"
           /\ idx' = 1
           /\ UNCHANGED <<options, isolateVars, request, env, path, extensions, key,
                          handlerLog, result, upVars>>

PathKvDirect ==
    /\ pc = "pk_direct"
    /\ \E r \in KvOutcomes(FullPath(path)) :
           PathKvTry(path, r, "pk_ext", 1)

PathKvExt ==
    /\ pc = "pk_ext"
    /\ LET p == WithExt(path, extensions[idx])
       IN  \E r \in KvOutcomes(FullPath(p)) :
               PathKvTry(p, r, LoopPc("pk_ext"), LoopIdx)

\* return handler(request, env, ctx)
PathKvHandler ==
    /\ pc = "pk_handler"
    /\ \E h \in HandlerOutcomes :
           /\ handlerLog' = Append(handlerLog, HandlerCall(request, env, Ctx, h))
           /\ result' = h.response
    /\ pc' = "done"
    /\ UNCHANGED <<options, isolateVars, request, env, path, extensions, idx, key, probes,
                   upVars>>


-----------------------------------------------------------------------------
(* cloudflare-assets-kv: withAssetsKV *)

contentTypeMap ==
    [html |-> "text/html", css |-> "text/css", js |-> "application/javascript",
     mjs |-> "application/javascript", json |-> "application/json",
     png |-> "image/png", jpg |-> "image/jpeg", jpeg |-> "image/jpeg",
     gif |-> "image/gif", svg |-> "image/svg+xml", ico |-> "image/x-icon",
     txt |-> "text/plain", md |-> "text/markdown", woff |-> "font/woff",
     woff2 |-> "font/woff2", ttf |-> "font/ttf", otf |-> "font/otf",
     pdf |-> "application/pdf", xml |-> "application/xml"]

\* opts.excludePaths?.some((path) => pathname.startsWith(path))
Excluded(pathname) ==
    \E i \in 1..Len(options.excludePaths) :
        StartsWith(pathname, options.excludePaths[i])

\* the key with the path prefix put in front of the hostname
AssetsKey_prefixBeforeHost(req) ==
    LET k0 == req.pathname
        k1 == IF EndsWithSlash(k0) \/ k0 = <<>>
              THEN k0 \o <<"index", ".", "html">> ELSE k0
        k2 == IF StartsWith(k1, <<"/">>) THEN Tail(k1) ELSE k1
        k3 == IF options.includeHost THEN req.hostname \o <<"/">> \o k2 ELSE k2
    IN  IF options.prefix # <<>> THEN options.prefix \o k3 ELSE k3

\* "Build the KV key"
AssetsKey(req) ==
    LET k0 == req.pathname
        k1 == IF EndsWithSlash(k0) \/ k0 = <<>>
              THEN k0 \o <<"index", ".", "html">> ELSE k0
        k2 == IF StartsWith(k1, <<"/">>) THEN Tail(k1) ELSE k1
        k3 == IF options.prefix # <<>> THEN options.prefix \o k2 ELSE k2
    IN  IF options.includeHost THEN req.hostname \o <<"/">> \o k3 ELSE k3

\* key.split(".").pop()?.toLowerCase() || "" looked up in contentTypeMap
AssetsContentType(k) ==
    LET t == Lookup(contentTypeMap, toLowerCase(SplitPop(k)))
    IN  IF Truthy(t) THEN t ELSE "application/octet-stream"

\* `"${key}-${new Date().getTime().toString(16)}"`: depends on the clock
ETag == "etag"

\* withAssetsKV up to its first await or handler call
AssetsEntry(req, e) ==
    IF Excluded(req.pathname) THEN [pc |-> "ak_handler_out", key |-> <<>>]
    ELSE IF req.method # "GET" THEN [pc |-> "ak_handler_out", key |-> <<>>]
    ELSE IF ~e.kv THEN [pc |-> "ak_handler_try", key |-> AssetsKey(req)]
    ELSE [pc |-> "ak_get", key |-> AssetsKey(req)]

AssetsFetch(req, e) ==
    /\ options.wrapper = "assetskv"
    /\ pc = "idle"
    /\ pc' = AssetsEntry(req, e).pc
    /\ key' = AssetsEntry(req, e).key
    /\ request' = req
    /\ env' = e
    /\ path' = <<>>
    /\ extensions' = <<>>
    /\ idx' = 0
    /\ probes' = <<>>
    /\ handlerLog' = <<>>
    /\ result' = NoResult
    /\ UNCHANGED <<options, isolateVars, upVars>>

\* const asset = await kvNamespace.get(key, { type: "arrayBuffer" }) and what
\* follows it inside the try block
AssetsGet ==
    /\ pc = "ak_get"
    /\ \E r \in KvGetOutcomes(key) :
           /\ probes' = Append(probes, Probe("get", key, r))
           /\ IF r.threw
              THEN /\ pc' = "ak_handler_catch"
                   /\ result' = result
              ELSE IF r.value = NULL
              THEN /\ pc' = "ak_handler_try"
                   /\ result' = result
              ELSE /\ pc' = "done"
                   /\ result' = Response(r.value, 200, AssetsContentType(key),
                                         options.cacheControl, ETag)
    /\ UNCHANGED <<options, isolateVars, request, env, path, extensions, idx, key,
                   handlerLog, upVars>>

\* return handler(request, env, ctx) before the try block (lines 87, 92)
AssetsHandlerOut ==
    /\ pc = "ak_handler_out"
    /\ \E h \in HandlerOutcomes :
           /\ handlerLog' = Append(handlerLog, HandlerCall(request, env, Ctx, h))
           /\ result' = h.response
    /\ pc' = "done"
    /\ UNCHANGED <<options, isolateVars, request, env, path, extensions, idx, key, probes,
                   upVars>>

\* return handler(request, env, ctx) inside the try block (lines 126, 134):
\* an exception thrown by the call is caught by the catch block; a promise
\* that rejects later is returned, not awaited, and is not caught.
AssetsHandlerTry ==
    /\ pc = "ak_handler_try"
    /\ \E h \in HandlerOutcomes :
           /\ handlerLog' = Append(handlerLog, HandlerCall(request, env, Ctx, h))
           /\ IF h.how = "throws"
              THEN /\ pc' = "ak_handler_catch"
                   /\ result' = result
              ELSE /\ pc' = "done"
                   /\ result' = h.response
    /\ UNCHANGED <<options, isolateVars, request, env, path, extensions, idx, key, probes,
                   upVars>>

\* return handler(request, env, ctx) in the catch block (line 158)
AssetsHandlerCatch ==
    /\ pc = "ak_handler_catch"
    /\ \E h \in HandlerOutcomes :
           /\ handlerLog' = Append(handlerLog, HandlerCall(request, env, Ctx, h))
           /\ result' = h.response
    /\ pc' = "done"
    /\ UNCHANGED <<options, isolateVars, request, env, path, extensions, idx, key, probes,
                   upVars>>

-----------------------------------------------------------------------------
(* uploadkv *)

\* filePath.replace(/\\/g, "/")
NormalizeSlashes(f) == [i \in 1..Len(f) |-> IF f[i] = "\\" THEN "/" ELSE f[i]]

\* s.split("/"): the segments of s
RECURSIVE SplitSlash(_)
SplitSlash(s) ==
    IF \E i \in 1..Len(s) : s[i] = "/"
    THEN LET i == CHOOSE i \in 1..Len(s) :
                      s[i] = "/" /\ \A j \in 1..(i-1) : s[j] # "/"
         IN  <<SubSeq(s, 1, i - 1)>> \o SplitSlash(SubSeq(s, i + 1, Len(s)))
    ELSE <<s>>

\* new RegExp(`^${pattern.replace(/\./g, "\\.").replace(/\*/g, ".*")}$`).test(s)
\* for patterns whose "*" stand at token boundaries
RECURSIVE GlobTest(_, _)
GlobTest(pattern, s) ==
    IF pattern = <<>> THEN s = <<>>
    ELSE IF Head(pattern) = "*"
    THEN \E n \in 0..Len(s) :
             GlobTest(Tail(pattern), SubSeq(s, n + 1, Len(s)))
    ELSE s # <<>> /\ Head(s) = Head(pattern) /\ GlobTest(Tail(pattern), Tail(s))

shouldIgnore(filePath, ignorePatterns) ==
    LET normalizedPath == NormalizeSlashes(filePath)
    IN  \E n \in 1..Len(ignorePatterns) :
            LET pattern == ignorePatterns[n]
            IN  IF normalizedPath = pattern THEN TRUE
                ELSE IF EndsWithSlash(pattern)
                        /\ StartsWith(normalizedPath, pattern) THEN TRUE
                ELSE IF Includes(pattern, "*")
                THEN GlobTest(pattern, normalizedPath)
                ELSE \/ Includes(SplitSlash(normalizedPath), pattern)
                     \/ StartsWith(normalizedPath, pattern \o <<"/">>)

\* The entries listAllFiles meets on its way down to file f: every directory
\* above f (relative to baseDir), then f itself
EntriesTo(f) ==
    { SubSeq(f, 1, i - 1) : i \in { j \in 2..Len(f) : f[j] \in {"/", "\\"} } }
        \cup {f}

\* listAllFiles(basePath, basePath, ignorePatterns) on a directory whose files
\* are t (relative paths, in readdir order): an entry that shouldIgnore
\* matches is skipped, with everything below it
listAllFiles(t, ignorePatterns) ==
    SelectSeq(t, LAMBDA f :
        \A entry \in EntriesTo(f) : ~shouldIgnore(entry, ignorePatterns))

\* parseIgnoreFile's result when there is no .assetsignore
DefaultIgnores ==
    << <<"node_modules">>, <<".", "wrangler">>, <<".", "git">>,
       <<".", "DS_Store">> >>

\* path.extname(filePath).toLowerCase().slice(1)
UploadExtension(filePath) ==
    LET segs == SplitSlash(NormalizeSlashes(filePath))
        base == segs[Len(segs)]
        dot  == LastDot(base)
    IN  IF dot <= 1 THEN <<>>
        ELSE toLowerCase(SubSeq(base, dot + 1, Len(base)))

uploadContentTypeMap ==
    [html |-> "text/html", css |-> "text/css", js |-> "application/javascript",
     mjs |-> "application/javascript", json |-> "application/json",
     png |-> "image/png", jpg |-> "image/jpeg", jpeg |-> "image/jpeg",
     gif |-> "image/gif", svg |-> "image/svg+xml", ico |-> "image/x-icon",
     txt |-> "text/plain", md |-> "text/markdown", woff |-> "font/woff",
     woff2 |-> "font/woff2", ttf |-> "font/ttf", otf |-> "font/otf",
     pdf |-> "application/pdf", xml |-> "application/xml"]

uploadGetContentType(filePath) ==
    LET t == Lookup(uploadContentTypeMap, UploadExtension(filePath))
    IN  IF Truthy(t) THEN t ELSE "application/octet-stream"

BasePath == <<"/", "site", "/", "public">>

\* path.join(basePath, file)
JoinBase(file) == BasePath \o <<"/">> \o file

\* let key = file.replace(/\\/g, "/"); if (key.startsWith("/")) key = key.substring(1)
UploadKey(file) ==
    LET k == NormalizeSlashes(file)
    IN  IF StartsWith(k, <<"/">>) THEN Tail(k) ELSE k

\* console.log(`Uploading ${filePath} -> ${key} (${contentType})`)
LogLine(filePath, k, contentType) ==
    [filePath |-> filePath, key |-> k, contentType |-> contentType]

\* npx wrangler kv key put [--remote] <namespace> "key" --path=... --metadata=... [--local]
PutCommand(filePath, k, contentType, isLocal) ==
    [cmd |-> "wrangler kv key put", key |-> k, path |-> filePath,
     contentType |-> contentType, remote |-> ~flags.useLocal,
     local |-> isLocal]

\* uploadFile without its dry-run return
ReturnsBeforeUpload_never(isDryRun) == FALSE

\* if (isDryRun) return;
ReturnsBeforeUpload(isDryRun) == isDryRun

\* try { await execPromise("npx wrangler --version") } catch { process.exit(1) }
UploadCheckWrangler ==
    /\ upPc = "start"
    /\ \E installed \in BOOLEAN :
           upPc' = IF installed THEN "scan" ELSE "exit"
    /\ UNCHANGED <<options, isolateVars, reqVars, tree, files, upIdx, flags, store, log,
                   commands>>

\* const files = await listAllFiles(basePath, basePath, ignorePatterns)
UploadScan ==
    /\ upPc = "scan"
    /\ files' = listAllFiles(tree, flags.ignorePatterns)
    /\ upIdx' = 1
    /\ upPc' = IF files' = <<>> THEN "complete" ELSE "upload"
    /\ UNCHANGED <<options, isolateVars, reqVars, tree, flags, store, log, commands>>

\* One turn of the upload loop of main(): uploadFile(...) and the progress line
UploadFile ==
    /\ upPc = "upload"
    /\ LET file == files[upIdx]
           filePath == JoinBase(file)
           k == UploadKey(file)
           contentType == uploadGetContentType(filePath)
       IN  /\ log' = Append(log, LogLine(filePath, k, contentType))
           /\ IF ReturnsBeforeUpload(flags.dryRun)
              THEN UNCHANGED <<commands, store>>
              ELSE /\ commands' =
                          Append(commands,
                                 PutCommand(filePath, k, contentType,
                                            flags.useLocal))
                   /\ \E succeeds \in BOOLEAN :
                          store' =
                              IF succeeds
                              THEN (k :> [contentType |-> contentType,
                                          path |-> filePath]) @@ store
                              ELSE store
    /\ upIdx' = upIdx + 1
    /\ upPc' = IF upIdx < Len(files) THEN "upload" ELSE "complete"
    /\ UNCHANGED <<options, isolateVars, reqVars, tree, files, flags>>

-----------------------------------------------------------------------------
(* Inputs *)

Header(items) == [present |-> TRUE, items |-> items]

Item(type, q) == [type |-> type, q |-> q]

NoAccept == [present |-> FALSE, items |-> <<>>]

Accepts ==
    { NoAccept,
      Header(<<Item("*/*", NoQ)>>),
      Header(<<Item("*/*", 8)>>),
      Header(<<Item("text/html", NoQ)>>),
      Header(<<Item("text/html", 1), Item("application/json", 9)>>),
      Header(<<Item("text/plain", NoQ), Item("text/html", NoQ)>>),
      Header(<<Item("text/markdown", NoQ), Item("text/x-markdown", NoQ)>>),
      Header(<<Item("application/json", NoQ), Item("*/*", 8)>>),
      Header(<<Item("image/png", NoQ)>>) }

Hostname == <<"example", ".", "com">>

Methods == {"GET", "POST"}

PathKvPathnames ==
    { <<"/">>,
      <<"/", "docs", "/">>,
      <<"/", "docs">>,
      <<"/", "foo", ".">>,
      <<"/", "a", ".", "html">>,
      <<"/", "a", "%2E", "html">>,
      <<"/", "a", ".", "xyz">>,
      <<"/", "v1", ".", "2", "/">>,
      <<"/", "x", ".", "constructor">>,
      <<"/", "%zz">> }

AssetsPathnames ==
    { <<"/">>,
      <<"/", "index", ".", "html">>,
      <<"/", "docs", "/">>,
      <<"/", "readme">>,
      <<"/", "a", ".", "HTML">>,
      <<"/", "api", "/", "x">> }

Request(method, pathname, accept) ==
    [method |-> method, pathname |-> pathname, accept |-> accept,
     hostname |-> Hostname]

PathKvRequests ==
    { Request(m, p, a) : m \in Methods, p \in PathKvPathnames, a \in Accepts }

AssetsRequests ==
    { Request(m, p, NoAccept) : m \in Methods, p \in AssetsPathnames }

\* env[kvBinding] is a KV namespace, or is missing
Envs == { [kv |-> TRUE], [kv |-> FALSE] }

Options(wrapper, prefix, excludePaths, includeHost, cacheControl) ==
    [wrapper |-> wrapper, prefix |-> prefix, excludePaths |-> excludePaths,
     includeHost |-> includeHost, cacheControl |-> cacheControl]

\* withPathKv(handler) with its defaults: kvBinding "PATH_KV", prefix ""
PathKvDefaults == Options("pathkv", <<>>, <<>>, FALSE, UNDEFINED)

\* withAssetsKV(handler) with defaultOptions
AssetsDefaults ==
    Options("assetskv", <<>>, <<>>, FALSE, "public, max-age=31536000")

Deployments ==
    { PathKvDefaults,
      [PathKvDefaults EXCEPT !.prefix = <<"site:">>],
      AssetsDefaults,
      [AssetsDefaults EXCEPT !.excludePaths = << <<"/", "api", "/">> >>],
      [AssetsDefaults EXCEPT !.prefix = <<"assets", "/">>,
                             !.includeHost = TRUE] }

NoRequest == Request("", <<>>, NoAccept)

NoFlags == [dryRun |-> FALSE, useLocal |-> FALSE, ignorePatterns |-> <<>>]

InitRequest ==
    /\ pc = "idle"
    /\ request = NoRequest
    /\ env = [kv |-> FALSE]
    /\ path = <<>>
    /\ extensions = <<>>
    /\ idx = 0
    /\ key = <<>>
    /\ probes = <<>>
    /\ handlerLog = <<>>
    /\ result = NoResult

\* The module is loaded: const DEFAULT_EXTENSIONS = [...]
InitIsolate == defaultExtensions = DEFAULT_EXTENSIONS

\* The workers alone, one request at a time: uploadkv is not run
Init ==
    /\ options \in Deployments
    /\ InitRequest
    /\ InitIsolate
    /\ inflight = <<>>
    /\ upPc = "off"
    /\ tree = <<>>
    /\ files = <<>>
    /\ upIdx = 0
    /\ flags = NoFlags
    /\ store = <<>>
    /\ log = <<>>
    /\ commands = <<>>

\* The returned promise has settled: the runtime sends the response (or the
\* error page) and the invocation's locals are gone.
Respond ==
    /\ pc = "done"
    /\ pc' = "idle"
    /\ request' = NoRequest
    /\ env' = [kv |-> FALSE]
    /\ path' = <<>>
    /\ extensions' = <<>>
    /\ idx' = 0
    /\ key' = <<>>
    /\ probes' = <<>>
    /\ handlerLog' = <<>>
    /\ result' = NoResult
    /\ UNCHANGED <<options, isolateVars, upVars>>

Fetch ==
    \/ \E req \in PathKvRequests, e \in Envs : PathKvFetch(req, e)
    \/ \E req \in AssetsRequests, e \in Envs : AssetsFetch(req, e)

Next ==
    \/ Fetch
    \/ PathKvExact
    \/ PathKvIndex
    \/ PathKvDirect
    \/ PathKvExt
    \/ PathKvHandler
    \/ AssetsGet
    \/ AssetsHandlerOut
    \/ AssetsHandlerTry
    \/ AssetsHandlerCatch
    \/ Respond

Spec == Init /\ [][Next]_vars


-----------------------------------------------------------------------------
(* Vocabulary of the properties *)

\* A withPathKv invocation for a GET request with the KV binding present
PathKvGet ==
    /\ options.wrapper = "pathkv"
    /\ pc # "idle"
    /\ request.method = "GET"
    /\ env.kv

\* ... whose pathname decodeURIComponent accepts
PathKvLookup == PathKvGet /\ ~DecodeThrows(request.pathname)

\* The lookup returned a non-empty value
IsHit(r) == ~r.threw /\ r.value \notin {NULL, ""}

NoHit == \A i \in 1..Len(probes) : ~IsHit(probes[i].res)

LastProbe == probes[Len(probes)]

\* The request path as the resolution rules see it: decoded, without the
\* trailing slash of a non-root path
RequestPath ==
    LET d == decodeURIComponent(request.pathname)
    IN  IF Len(d) > 1 /\ d[Len(d)] = "/" THEN SubSeq(d, 1, Len(d) - 1) ELSE d

\* The path has an extension: its last segment has a "." with text after it
PathHasExtension(p) ==
    \E i \in 1..(Len(p) - 1) :
        p[i] = "." /\ ~(\E j \in i..Len(p) : p[j] = "/")

\* The wrapped handler ran once, with the original arguments, and what it
\* returned is what the wrapper returned
DelegatedOnce ==
    /\ Len(handlerLog) = 1
    /\ handlerLog[1].request = request
    /\ handlerLog[1].env = env
    /\ handlerLog[1].ctx = Ctx
    /\ result = handlerLog[1].outcome.response

\* The candidate keys of the current withPathKv request, in probing order
Candidates ==
    LET exts == parseAcceptHeader(request.accept)
    IN  IF PathHasExtension(RequestPath)
        THEN << options.prefix \o RequestPath >>
        ELSE IF request.pathname[Len(request.pathname)] = "/"
        THEN [i \in 1..Len(exts) |->
                  options.prefix \o path \o <<"index", ".", exts[i]>>]
        ELSE << options.prefix \o RequestPath >> \o
             [i \in 1..Len(exts) |->
                  options.prefix \o RequestPath \o <<".", exts[i]>>]

\* The extensions probed so far, in order (the last token of each key probed
\* with an extension appended)
ProbedExtensions ==
    LET from == IF request.pathname[Len(request.pathname)] = "/" THEN 1 ELSE 2
    IN  [i \in 1..(IF Len(probes) >= from THEN Len(probes) - from + 1 ELSE 0)
            |-> LET k == probes[from + i - 1].key IN k[Len(k)]]

\* All candidates were probed and none hit
AllMissed == pc \in {"pk_handler", "done"} /\ NoHit

-----------------------------------------------------------------------------
(* C1 *)

C1_State ==
    PathKvLookup =>
        /\ Len(probes) <= Len(Candidates)
        /\ \A i \in 1..Len(probes) : probes[i].key = Candidates[i]
        /\ \A i \in 1..(Len(probes) - 1) : ~IsHit(probes[i].res)
        /\ (probes # <<>> /\ IsHit(LastProbe.res)) =>
               /\ pc = "done"
               /\ result.kind = "response"
               /\ result.body = LastProbe.res.value
        /\ (pc = "done" /\ handlerLog = <<>>) =>
               (probes # <<>> /\ IsHit(LastProbe.res))

C1_Step ==
    /\ Len(probes') <= Len(probes) + 1
    /\ (pc # "idle" /\ pc' # "idle") =>
           SubSeq(probes', 1, Len(probes)) = probes

\* C1: withPathKv probes its candidate keys one at a time, in the fixed
\* candidate order (bare path first, then path.ext in the order of the
\* Accept-derived extension list), answers from the first candidate whose lookup
\* returned a non-empty value, and probes nothing after that hit.
C1_ProbesInOrderFirstHitWins == [] C1_State /\ [][C1_Step]_vars

C1_Witness ==
    /\ PathKvLookup
    /\ request.pathname = <<"/", "docs">>
    /\ pc = "done"
    /\ Len(probes) = 3
    /\ ~IsHit(probes[1].res)
    /\ ~IsHit(probes[2].res)
    /\ IsHit(probes[3].res)
    /\ result.body = "asset"

(* C2 *)

\* C2 (as claimed): every GET request with the KV binding present ends either
\* with a hit whose stored content is the response body and no handler call, or
\* with all candidates missed and the handler called exactly once with the
\* original arguments, its response returned unmodified.
C2_HitXorDelegate ==
    (PathKvGet /\ pc = "done") =>
        \/ /\ \E i \in 1..Len(probes) : IsHit(probes[i].res)
           /\ result.kind = "response"
           /\ result.body = LastProbe.res.value
           /\ handlerLog = <<>>
        \/ /\ NoHit
           /\ DelegatedOnce

(* C3 *)

\* C3: a KV lookup that throws is a miss and its error never reaches the
\* caller: withPathKv goes on to the next candidate and, when nothing hits,
\* returns the handler's response; withAssetsKV returns the handler's response.
C3_KvThrowIsMiss ==
    /\ result.error # "KvError"
    /\ PathKvLookup =>
           /\ (probes # <<>> /\ LastProbe.res.threw) =>
                  \/ pc \in {"pk_index", "pk_ext"}
                  \/ /\ Len(probes) = Len(Candidates)
                     /\ pc = "pk_handler" \/ (pc = "done" /\ DelegatedOnce)
           /\ (pc = "done" /\ NoHit) => DelegatedOnce
    /\ (options.wrapper = "assetskv" /\ pc = "done" /\ probes # <<>>
            /\ probes[1].res.threw) =>
           /\ handlerLog # <<>>
           /\ result = handlerLog[Len(handlerLog)].outcome.response

C3_Witness ==
    /\ PathKvLookup
    /\ pc = "done"
    /\ Len(probes) = 5
    /\ probes[2].res.threw
    /\ probes[5].res.threw
    /\ result = HandlerResponse

(* C4 *)

\* C4: when the request path has an extension, withPathKv makes exactly one
\* lookup, at prefix + path, whatever the Accept header is, and on a miss calls
\* the handler without another lookup.
C4_ExtensionOnlyFullPath ==
    (PathKvLookup /\ PathHasExtension(RequestPath)) =>
        /\ pc = "pk_exact" => probes = <<>>
        /\ pc # "pk_exact" =>
               /\ Len(probes) = 1
               /\ probes[1].key = options.prefix \o RequestPath
               /\ pc \in {"pk_handler", "done"}
        /\ (pc = "done" /\ NoHit) => DelegatedOnce

C4_Witness ==
    /\ PathKvLookup
    /\ request.pathname = <<"/", "a", ".", "xyz">>
    /\ request.accept = Header(<<Item("text/html", NoQ)>>)
    /\ pc = "done"
    /\ Len(probes) = 1
    /\ ~IsHit(probes[1].res)
    /\ Len(handlerLog) = 1

(* C5 *)

\* C5 (as claimed): for a pathname ending in "/", root or not, the keys probed
\* are prefix + pathname + "index." + ext for the Accept-derived extensions.
C5_DirectoryIndexKeys ==
    (PathKvLookup /\ request.pathname[Len(request.pathname)] = "/") =>
        LET exts == parseAcceptHeader(request.accept)
        IN  /\ Len(probes) <= Len(exts)
            /\ \A i \in 1..Len(probes) :
                   probes[i].key =
                       options.prefix \o decodeURIComponent(request.pathname)
                           \o <<"index", ".", exts[i]>>
            /\ AllMissed => Len(probes) = Len(exts)

(* C6 *)

\* C6: with no Accept header, or with Accept exactly "*/*", the extensions
\* tried for an extensionless path are txt, md, json, html, in this order,
\* each once.
C6_DefaultExtensionOrder ==
    (/\ PathKvLookup
     /\ ~PathHasExtension(RequestPath)
     /\ ~request.accept.present \/ request.accept.items = <<Item("*/*", NoQ)>>)
    =>
        /\ Len(ProbedExtensions) <= 4
        /\ \A i \in 1..Len(ProbedExtensions) :
               ProbedExtensions[i] = <<"txt", "md", "json", "html">>[i]
        /\ AllMissed => Len(ProbedExtensions) = 4

C6_Witness ==
    /\ PathKvLookup
    /\ request.pathname = <<"/", "docs">>
    /\ request.accept = Header(<<Item("*/*", NoQ)>>)
    /\ pc = "done"
    /\ NoHit
    /\ ProbedExtensions = <<"txt", "md", "json", "html">>

(* C7 *)

C7_TypeOf(ext) ==
    CASE ext = "html" -> {"text/html"}
      [] ext = "json" -> {"application/json"}
      [] ext = "md" -> {"text/markdown", "text/x-markdown"}
      [] ext = "txt" -> {"text/plain"}
      [] OTHER -> {}

C7_Positions(ext) ==
    { i \in 1..Len(request.accept.items) :
          request.accept.items[i].type \in C7_TypeOf(ext) }

C7_Listed(ext) == request.accept.present /\ C7_Positions(ext) # {}

C7_Q(i) ==
    IF request.accept.items[i].q = NoQ THEN 10 ELSE request.accept.items[i].q

\* the best q-value the header gives ext, and where it first gives it
C7_BestQ(ext) ==
    CHOOSE q \in 0..10 :
        /\ \E i \in C7_Positions(ext) : C7_Q(i) = q
        /\ \A i \in C7_Positions(ext) : C7_Q(i) <= q

C7_FirstPos(ext) ==
    CHOOSE i \in C7_Positions(ext) : \A j \in C7_Positions(ext) : i <= j

C7_Before(a, b) ==
    IF ~C7_Listed(b) THEN TRUE
    ELSE IF ~C7_Listed(a) THEN FALSE
    ELSE \/ C7_BestQ(a) > C7_BestQ(b)
         \/ C7_BestQ(a) = C7_BestQ(b) /\ C7_FirstPos(a) < C7_FirstPos(b)

\* C7 (as claimed): for an extensionless path the extensions are probed by the
\* priority the Accept header gives them: listed types before unlisted ones,
\* and among listed types higher q first, equal q by order of appearance.
C7_AcceptPriorityOrder ==
    (PathKvLookup /\ ~PathHasExtension(RequestPath)) =>
        \A i, j \in 1..Len(ProbedExtensions) :
            (i < j /\ ProbedExtensions[i] # ProbedExtensions[j]) =>
                C7_Before(ProbedExtensions[i], ProbedExtensions[j])

(* C8 *)

\* the extension of a key: the text after its last ".", if it has a "."
C8_KeyExtension(k) ==
    IF \E i \in 1..Len(k) : k[i] = "."
    THEN SubSeq(k, (CHOOSE i \in 1..Len(k) :
                       k[i] = "." /\ \A j \in (i+1)..Len(k) : k[j] # ".") + 1,
                Len(k))
    ELSE <<>>

C8_KnownTypes ==
    [html |-> "text/html", json |-> "application/json", md |-> "text/markdown",
     txt |-> "text/plain", css |-> "text/css", js |-> "application/javascript",
     png |-> "image/png", jpg |-> "image/jpeg", jpeg |-> "image/jpeg",
     gif |-> "image/gif", svg |-> "image/svg+xml", ico |-> "image/x-icon",
     pdf |-> "application/pdf"]

\* C8 (as claimed): the Content-Type of a withPathKv asset response is the
\* contentType of the hit key's metadata when it has one, else the type of the
\* hit key's extension, else application/octet-stream for an unknown extension.
C8_ContentTypeRule ==
    (PathKvLookup /\ pc = "done" /\ probes # <<>> /\ IsHit(LastProbe.res)) =>
        LET r == LastProbe.res
            e == C8_KeyExtension(LastProbe.key)
        IN  result.contentType =
                IF ~r.metaNull /\ r.contentType \notin {UNDEFINED, ""}
                THEN r.contentType
                ELSE IF Len(e) = 1 /\ e[1] \in DOMAIN C8_KnownTypes
                THEN C8_KnownTypes[e[1]]
                ELSE "application/octet-stream"


-----------------------------------------------------------------------------
(* uploadkv followed by a path-kv worker with default options *)

MaxFiles == 2

FilePaths ==
    { <<"index", ".", "html">>,
      <<"docs", "/", "a", ".", "md">>,
      <<"docs", "\\", "a", ".", "md">>,
      <<"style", ".", "css">>,
      <<".", "git", "/", "config">> }

\* directory contents: up to MaxFiles files, none listed twice
Trees ==
    { t \in UNION { [1..n -> FilePaths] : n \in 0..MaxFiles } :
          \A i, j \in 1..Len(t) : i # j => t[i] # t[j] }

IgnoreLists ==
    { DefaultIgnores,
      << <<"docs", "/">>, <<"*", ".", "css">> >> }

InitUpload ==
    /\ options = PathKvDefaults
    /\ InitRequest
    /\ InitIsolate
    /\ inflight = <<>>
    /\ upPc = "start"
    /\ tree \in Trees
    /\ files = <<>>
    /\ upIdx = 0
    /\ flags \in [dryRun : BOOLEAN, useLocal : BOOLEAN,
                  ignorePatterns : IgnoreLists]
    /\ store = <<>>
    /\ log = <<>>
    /\ commands = <<>>

\* GET /p for a file p that uploadkv found, once uploadkv has finished
UploadedFetch ==
    /\ upPc = "complete"
    /\ \E i \in 1..Len(files) :
           PathKvFetch(Request("GET", <<"/">> \o NormalizeSlashes(files[i]),
                               NoAccept),
                       [kv |-> TRUE])

NextUpload ==
    \/ UploadCheckWrangler
    \/ UploadScan
    \/ UploadFile
    \/ UploadedFetch
    \/ PathKvExact
    \/ PathKvHandler
    \/ Respond

SpecUpload == InitUpload /\ [][NextUpload]_vars

(* C9 *)

\* C9 (as claimed): the key uploadkv writes for a file at relative path p is a
\* key withPathKv (default options) probes for GET /p.
C9_UploadedKeyIsProbed ==
    (PathKvLookup /\ pc \in {"pk_handler", "done"}) =>
        \A k \in DOMAIN store :
            request.pathname = <<"/">> \o k =>
                \E i \in 1..Len(probes) : probes[i].key = k

(* C10 *)

C10_State ==
    flags.dryRun =>
        /\ commands = <<>>
        /\ store = <<>>
        /\ upPc \in {"upload", "complete"} =>
               /\ Len(log) = upIdx - 1
               /\ \A i \in 1..Len(log) :
                      /\ log[i].filePath = BasePath \o <<"/">> \o files[i]
                      /\ log[i].key = UploadKey(files[i])
                      /\ log[i].contentType =
                             uploadGetContentType(log[i].filePath)
        /\ upPc = "complete" => Len(log) = Len(files)

\* C10: with --dryrun uploadkv logs file, key and content type of every file
\* found, executes no `wrangler kv key put`, and leaves the KV store unchanged.
C10_DryRunUploadsNothing ==
    [] C10_State /\ [][flags.dryRun => (store' = store /\ commands' = commands)]_vars

C10_Witness ==
    /\ flags.dryRun
    /\ upPc = "complete"
    /\ Len(files) = 2
    /\ Len(log) = 2
    /\ store = <<>>

-----------------------------------------------------------------------------
(* C11 *)

\* A withAssetsKV invocation for a GET request that no excludePaths entry
\* prefixes
AssetsGetRequest ==
    /\ options.wrapper = "assetskv"
    /\ pc # "idle"
    /\ request.method = "GET"
    /\ ~Excluded(request.pathname)

\* (includeHost ? hostname + "/" : "") + pathPrefix + p, p the pathname without
\* its leading "/" and with "index.html" appended when it ends with "/"
C11_Key ==
    LET n == request.pathname
        p == SubSeq(n, 2, Len(n)) \o
                 (IF n[Len(n)] = "/" THEN <<"index", ".", "html">> ELSE <<>>)
        host == IF options.includeHost THEN request.hostname \o <<"/">>
                ELSE <<>>
    IN  host \o options.prefix \o p

C11_LookedUpOnceAtKey ==
    /\ Len(probes) = 1
    /\ probes[1].op = "get"
    /\ probes[1].key = C11_Key

\* C11 (as claimed): every GET request that no excludePaths entry prefixes
\* makes exactly one KV lookup, at the key built from hostname, pathPrefix and
\* pathname.
C11_OneLookupAtKey_AsClaimed ==
    (AssetsGetRequest /\ pc = "done") => C11_LookedUpOnceAtKey

\* C11 (amended): every GET request that no excludePaths entry prefixes and
\* whose KV binding is present in env makes exactly one KV lookup, at key
\* (includeHost ? hostname + "/" : "") + pathPrefix + p; before the lookup
\* no KV call has been made, after it no other is made.
C11_OneLookupAtKey ==
    (AssetsGetRequest /\ env.kv) =>
        /\ pc = "ak_get" => probes = <<>>
        /\ pc # "ak_get" => C11_LookedUpOnceAtKey

C11_Witness ==
    /\ AssetsGetRequest
    /\ env.kv
    /\ options.includeHost
    /\ request.pathname = <<"/", "docs", "/">>
    /\ pc = "done"
    /\ probes[1].key = <<"example", ".", "com", "/", "assets", "/", "docs", "/",
                         "index", ".", "html">>
    /\ result.body = "asset"

-----------------------------------------------------------------------------
(* withPathKv: several invocations in flight in one isolate.  An invocation *)
(* runs until its next await (the KV lookup inside tryGetFromKV); between   *)
(* two awaits of one invocation any other invocation may run.               *)

MaxInflight == 2

Slots == 1..MaxInflight

\* the locals of an invocation that is not running
Idle ==
    [pc |-> "idle", request |-> NoRequest, env |-> [kv |-> FALSE],
     path |-> <<>>, extensions |-> <<>>, shared |-> FALSE, idx |-> 0,
     probes |-> <<>>, result |-> NoResult]

\* The array an invocation's local `extensions` refers to: the module array
\* itself when parseAcceptHeader returned DEFAULT_EXTENSIONS, else the array
\* parseAcceptHeader built
ArrayOf(l) == IF l.shared THEN defaultExtensions ELSE l.extensions

ConcurrentRequests ==
    { Request("GET", p, a) :
          p \in { <<"/", "docs">>, <<"/", "docs", "/">> },
          a \in { NoAccept, Header(<<Item("text/html", NoQ)>>) } }

\* what one lookup can do: throw, find nothing, find the asset
ConcurrentResults ==
    { KvThrows, KvNull, KvResult(FALSE, "asset", TRUE, UNDEFINED) }

\* parseAcceptHeader building its list in the module array
\* (const extensions = DEFAULT_EXTENSIONS) instead of a new array
ConcurrentFetch_sharedList(s, req, e) ==
    /\ inflight[s].pc = "idle"
    /\ LET n == PathKvEntry(req, e)
           parsed == n.extensions # <<>>
           pushed == IF parsed /\ ~ReturnsDefaults(req.accept)
                     THEN PushListed(AcceptTypes(req.accept.items)) ELSE <<>>
       IN  /\ defaultExtensions' = defaultExtensions \o pushed
           /\ inflight' =
                  [inflight EXCEPT ![s] =
                      [pc |-> n.pc, request |-> req, env |-> e,
                       path |-> n.path, extensions |-> n.extensions,
                       shared |-> parsed, idx |-> n.idx, probes |-> <<>>,
                       result |-> n.result]]
    /\ UNCHANGED <<options, reqVars, upVars>>

\* withPathKv in slot s, up to its first await
ConcurrentFetch(s, req, e) ==
    /\ inflight[s].pc = "idle"
    /\ LET n == PathKvEntry(req, e)
       IN  inflight' =
               [inflight EXCEPT ![s] =
                   [pc |-> n.pc, request |-> req, env |-> e,
                    path |-> n.path, extensions |-> n.extensions,
                    shared |-> n.extensions # <<>> /\ ReturnsDefaults(req.accept),
                    idx |-> n.idx, probes |-> <<>>, result |-> n.result]]
    /\ UNCHANGED <<options, defaultExtensions, reqVars, upVars>>

\* One `await tryGetFromKV(...)` of the invocation in slot s and what follows
\* it up to the next await: the response on a hit, else the next candidate
\* (the for-of loops read the array they iterate as it is now)
ConcurrentLookup(s) ==
    LET l == inflight[s]
        exts == ArrayOf(l)
        looping == l.pc \in {"pk_index", "pk_ext"}
        p == IF l.pc = "pk_index"
             THEN WithExt(l.path \o <<"index">>, exts[l.idx])
             ELSE IF l.pc = "pk_ext" THEN WithExt(l.path, exts[l.idx])
             ELSE l.path
        more == l.idx < Len(exts)
        missPc == IF l.pc = "pk_exact" THEN "pk_handler"
                  ELSE IF l.pc = "pk_direct" THEN "pk_ext"
                  ELSE IF more THEN l.pc ELSE "pk_handler"
        missIdx == IF l.pc = "pk_direct" THEN 1
                   ELSE IF looping /\ more THEN l.idx + 1 ELSE l.idx
    IN  /\ l.pc \in {"pk_exact", "pk_index", "pk_direct", "pk_ext"}
        /\ \E r \in ConcurrentResults :
               LET t == tryGetFromKV(p, r)
                   hit == t.outcome = "hit"
               IN  inflight' =
                       [inflight EXCEPT ![s] =
                           [l EXCEPT
                               !.probes = Append(@, [key |-> FullPath(p),
                                                     hit |-> hit]),
                               !.pc = IF hit THEN "done" ELSE missPc,
                               !.idx = IF hit THEN @ ELSE missIdx,
                               !.result = IF hit THEN PathKvResponse(t)
                                          ELSE @]]
        /\ UNCHANGED <<options, defaultExtensions, reqVars, upVars>>

\* return handler(request, env, ctx) of the invocation in slot s
ConcurrentHandler(s) ==
    /\ inflight[s].pc = "pk_handler"
    /\ \E h \in HandlerOutcomes :
           inflight' = [inflight EXCEPT ![s].pc = "done",
                                        ![s].result = h.response]
    /\ UNCHANGED <<options, defaultExtensions, reqVars, upVars>>

\* the promise of the invocation in slot s has settled
ConcurrentRespond(s) ==
    /\ inflight[s].pc = "done"
    /\ inflight' = [inflight EXCEPT ![s] = Idle]
    /\ UNCHANGED <<options, defaultExtensions, reqVars, upVars>>

InitConcurrent ==
    /\ options \in { PathKvDefaults,
                      [PathKvDefaults EXCEPT !.prefix = <<"site:">>] }
    /\ InitRequest
    /\ InitIsolate
    /\ inflight = [s \in Slots |-> Idle]
    /\ upPc = "off"
    /\ tree = <<>>
    /\ files = <<>>
    /\ upIdx = 0
    /\ flags = NoFlags
    /\ store = <<>>
    /\ log = <<>>
    /\ commands = <<>>

NextConcurrent ==
    \/ \E s \in Slots, req \in ConcurrentRequests :
           ConcurrentFetch(s, req, [kv |-> TRUE])
    \/ \E s \in Slots : ConcurrentLookup(s)
    \/ \E s \in Slots : ConcurrentHandler(s)
    \/ \E s \in Slots : ConcurrentRespond(s)

SpecConcurrent == InitConcurrent /\ [][NextConcurrent]_vars

(* C12 *)

\* the extension list as a function of the Accept header alone
C12_Extensions(accept) ==
    LET defaults == <<"txt", "md", "json", "html">>
    IN  IF ~accept.present \/ accept.items = <<[type |-> "*/*", q |-> NoQ]>>
        THEN defaults
        ELSE PushRemaining(PushListed(AcceptTypes(accept.items)), defaults)

\* the candidate keys as a function of pathname, Accept header and prefix
C12_Candidates(pathname, accept, prefix) ==
    LET exts == C12_Extensions(accept)
        dir == pathname[Len(pathname)] = "/"
        p == IF dir /\ Len(pathname) > 1
             THEN SubSeq(pathname, 1, Len(pathname) - 1) ELSE pathname
    IN  IF dir
        THEN [i \in 1..Len(exts) |-> prefix \o p \o <<"index", ".", exts[i]>>]
        ELSE <<prefix \o p>> \o
             [i \in 1..Len(exts) |-> prefix \o p \o <<".", exts[i]>>]

\* the keys the invocation in slot s probed are the candidates of its own
\* request, in order, up to the first hit
C12_KeysOf(s) ==
    LET l == inflight[s]
        c == C12_Candidates(l.request.pathname, l.request.accept,
                            options.prefix)
        n == Len(l.probes)
    IN  l.pc # "idle" =>
            /\ n <= Len(c)
            /\ \A i \in 1..n : l.probes[i].key = c[i]
            /\ \A i \in 1..(n - 1) : ~l.probes[i].hit
            /\ l.pc \in {"pk_handler", "done"} =>
                   (n = Len(c) \/ (n > 0 /\ l.probes[n].hit))
            /\ l.pc \notin {"pk_handler", "done"} =>
                   (n < Len(c) /\ (n > 0 => ~l.probes[n].hit))

\* C12: the keys a withPathKv request probes are a function of its pathname,
\* its Accept header, the prefix and which probed keys hit, whatever other
\* requests are in flight or came before (two requests with the same pathname
\* and Accept header probe the same keys as far as both have got), and the
\* module-level default extension list stays [txt, md, json, html].
C12_RequestsIndependent ==
    /\ defaultExtensions = <<"txt", "md", "json", "html">>
    /\ \A s \in Slots : C12_KeysOf(s)
    /\ \A s, t \in Slots :
           (/\ inflight[s].pc # "idle"
            /\ inflight[s].request = inflight[t].request) =>
               \A i \in 1..Len(inflight[s].probes) :
                   i <= Len(inflight[t].probes) =>
                       inflight[s].probes[i].key = inflight[t].probes[i].key

C12_Witness ==
    /\ inflight[1].request = Request("GET", <<"/", "docs">>, NoAccept)
    /\ inflight[1].pc = "pk_ext"
    /\ Len(inflight[1].probes) = 3
    /\ inflight[2].request =
           Request("GET", <<"/", "docs", "/">>,
                   Header(<<Item("text/html", NoQ)>>))
    /\ inflight[2].pc = "pk_index"
    /\ Len(inflight[2].probes) = 2
    /\ inflight[2].probes[1].key =
           options.prefix \o <<"/", "docs", "index", ".", "html">>

(* C13 *)

\* The request is one the wrapper may look up: GET, KV binding present and,
\* for withAssetsKV, a pathname that starts with no excludePaths entry
C13_Eligible ==
    /\ request.method = "GET"
    /\ env.kv
    /\ options.wrapper = "assetskv" => ~Excluded(request.pathname)

\* C13 (as claimed): a KV lookup is made only for a GET request whose KV
\* binding is present and (withAssetsKV) whose pathname is not excluded; for
\* every other request the wrapper calls the handler exactly once, returns its
\* response and makes no KV access.
C13_LookupOnlyWhenEligible ==
    pc # "idle" =>
        /\ probes # <<>> => C13_Eligible
        /\ (pc = "done" /\ ~C13_Eligible) =>
               /\ probes = <<>>
               /\ DelegatedOnce

(* C14 *)

\* C14 (as claimed): the wrapped handler is invoked at most once per request,
\* by withAssetsKV and by withPathKv, also when the handler throws or rejects.
C14_HandlerAtMostOnce == Len(handlerLog) <= 1

(* C15 *)

\* C15 (as claimed): within one withPathKv request no KV key is probed more
\* than once, whatever the Accept header is.
C15_NoKeyProbedTwice ==
    PathKvGet =>
        \A i, j \in 1..Len(probes) : i # j => probes[i].key # probes[j].key

====
